---- MODULE Spec2Model ----
(***************************************************************************)
(* pgauditlogtofile (logtofile.c): audit records of several backends are   *)
(* appended to a time-rotated file whose name, forced-rotation flag and    *)
(* next rotation time live in one shared-memory struct guarded by an       *)
(* LWLock.  Every backend is a process of this model; a step is one access *)
(* to the shared struct, one lock operation or one file operation.         *)
(***************************************************************************)
EXTENDS Integers, Sequences, FiniteSets, TLC

(* ------------------------------ bounds --------------------------------- *)
\* the clock stops advancing here
MaxTime == 3600
\* seconds added by one advance of the clock
ClockStep == 1800
\* records the server hands to the hook in one run
MaxRecords == 3
\* the highest line number a backend gives before it is forked anew
MaxLine == 3
\* the longest text of a field of a record
MaxLen == 2
\* the clock of the rotation-time runs stops advancing here
DeadlineHorizon == 9000

(* --------------------------- program constants ------------------------- *)
SECS_PER_MINUTE == 60

\* the backends
Procs == { "p1", "p2", "p3" }
NoProc == "none"

\* char * NULL and FILE * NULL
NULL == << "(null)" >>
EMPTY == << >>

PGAUDIT_PREFIX_LINE == << "A", "U", "D", "I", "T", ":", " " >>

\* the messages of the records handed to the hook
Messages ==
  { << "A", "u", "d", "i", "t", ":", " ", "x" >>,
    << "A", "U", "D" >>,
    << "L", "O", "G", ":", " ", "x" >> }

\* the values postgresql.conf may give the three settings ("%" is the
\* pattern's time conversion, down to the minute)
Directories == { NULL, EMPTY, << "l", "o", "g" >> }
Filenames == { NULL, EMPTY, << "a", "-", "%" >> }
RotationAges == { 60 }
TzOffsets == { 1800 }
\* postgresql.conf after it was edited: all three settings are new, and the
\* rotation age is 0, the minimum that line 178 declares
EditedConf ==
  [ log_directory |-> << "d" >>, log_filename |-> << "b" >>,
    log_rotation_age |-> 0 ]
\* the rotation-time runs: server start times, the pauses between records,
\* rotation ages in minutes and offsets of log_timezone in seconds
StartClocks == { 3600, 4500, 5400 }
Pauses == { 900, 2700 }
PositiveAges == { 30, 60 }
WideOffsets == { -2700, 0, 900, 1800 }
\* the texts a field of a record may hold, and the records they make
CsvAlphabet == { "a", "\"", "," }
CsvTexts == UNION { [ 1..k -> CsvAlphabet ] : k \in 0..MaxLen }
CsvRecords ==
  { [ message |-> PGAUDIT_PREFIX_LINE \o t, detail |-> d,
      output_to_server |-> TRUE ] :
      t \in CsvTexts, d \in CsvTexts \cup { NULL } }
Pids == { "pid1", "pid2" }
NoPid == "pid0"

(* ------------------------------ state ---------------------------------- *)
VARIABLES
  clock,                          \* time(NULL)
  tm_gmtoff,                      \* offset of log_timezone
  prev_emit_log_hook,             \* TRUE when a hook was installed before ours
  shm_found,                      \* the struct exists in shared memory
  shm_filename,                   \* pgaudit_log_shm->filename
  shm_force_rotation,             \* pgaudit_log_shm->force_rotation
  shm_next_rotation_time,         \* pgaudit_log_shm->next_rotation_time
  shm_lock,                       \* pgaudit_log_shm->lock
  AddinShmemInitLock,
  pc,
  pgaudit_log_shm,                \* per backend: the pointer is set
  guc_pgaudit_log_directory,
  guc_pgaudit_log_filename,
  guc_pgaudit_log_rotation_age,
  file_handler,                   \* NULL or the path the stream was opened on
  filename_in_use,
  current_rotation_time,          \* local of calculate_filename
  opened,                         \* local of open_file
  found,                          \* local of shmem_startup
  log_line_number,
  log_my_pid,
  MyProcPid,
  edata,                          \* the record being handled
  fallback_calls,                 \* calls of prev_emit_log_hook for it
  recorded,                       \* what record_audit did with it
  due,                            \* the stored deadline, if passed on entry
  observed,                       \* what line 336 read, when it was true
  rotated,                        \* record_audit ran lines 282-283 for it
  nr_last,                        \* outcome of the last needs_rotate_file
  name_before,                    \* the filename a calculate_filename replaces
  records_left,                   \* records the server has still to hand over
  buf                             \* the fields format_audit_line appended

shm_vars ==
  << shm_found, shm_filename, shm_force_rotation, shm_next_rotation_time,
     shm_lock, AddinShmemInitLock >>
guc_vars ==
  << guc_pgaudit_log_directory, guc_pgaudit_log_filename,
     guc_pgaudit_log_rotation_age >>
env_vars == << clock, tm_gmtoff, prev_emit_log_hook >>
file_vars == << file_handler, filename_in_use >>
fmt_vars == << log_line_number, log_my_pid, MyProcPid >>
rec_vars == << edata, fallback_calls, recorded, due, observed, rotated >>
loc_vars == << current_rotation_time, opened, found >>

vars ==
  << clock, tm_gmtoff, prev_emit_log_hook, shm_found, shm_filename,
     shm_force_rotation, shm_next_rotation_time, shm_lock,
     AddinShmemInitLock, pc, pgaudit_log_shm, guc_pgaudit_log_directory,
     guc_pgaudit_log_filename, guc_pgaudit_log_rotation_age, file_handler,
     filename_in_use, current_rotation_time, opened, found,
     log_line_number, log_my_pid, MyProcPid, edata, fallback_calls,
     recorded, due, observed, rotated, nr_last, name_before, records_left,
     buf >>

(* ------------------------- library functions --------------------------- *)
pg_tolower(c) ==
  CASE c = "A" -> "a" [] c = "U" -> "u" [] c = "D" -> "d" [] c = "I" -> "i"
    [] c = "T" -> "t" [] c = "L" -> "l" [] c = "O" -> "o" [] c = "G" -> "g"
    [] OTHER -> c

LowerStr(s) == [ i \in 1..Len(s) |-> pg_tolower(s[i]) ]

Take(s, n) == IF Len(s) <= n THEN s ELSE SubSeq(s, 1, n)

\* pg_strcasecmp(a, b) == 0
pg_strcasecmp_eq(a, b) == LowerStr(a) = LowerStr(b)

\* pg_strncasecmp(a, b, n) == 0
pg_strncasecmp_eq(a, b, n) == LowerStr(Take(a, n)) = LowerStr(Take(b, n))

\* a % b of C: the quotient is truncated toward zero
CRem(a, b) == IF a >= 0 THEN a % b ELSE 0 - ((0 - a) % b)

\* pg_strftime(.., fmt, pg_localtime(&t, log_timezone))
RECURSIVE pg_strftime(_, _, _)
pg_strftime(fmt, t, gmtoff) ==
  IF fmt = << >> THEN << >>
  ELSE (IF Head(fmt) = "%"
          THEN << ToString((t + gmtoff) \div SECS_PER_MINUTE) >>
          ELSE << Head(fmt) >>)
       \o pg_strftime(Tail(fmt), t, gmtoff)

(* --------------------------- pure functions ---------------------------- *)
\* the rotation time without line 360: the boundary before now
CalculateNextWithoutAdvance(now, rotation_age, gmtoff) ==
  LET rotinterval == rotation_age * SECS_PER_MINUTE
      n1 == now + gmtoff
      n2 == n1 - CRem(n1, rotinterval)
  IN  n2 - gmtoff

\* the rotation time without lines 358 and 361: boundaries of UTC
CalculateNextIgnoringTimezone(now, rotation_age, gmtoff) ==
  LET rotinterval == rotation_age * SECS_PER_MINUTE
      n2 == now - CRem(now, rotinterval)
  IN  n2 + rotinterval

pgauditlogtofile_calculate_next_rotation_time(now, rotation_age, gmtoff) ==
  LET rotinterval == rotation_age * SECS_PER_MINUTE
      n1 == now + gmtoff
      n2 == n1 - CRem(n1, rotinterval)
      n3 == n2 + rotinterval
  IN  n3 - gmtoff

\* is_enabled without the two strlen tests of lines 269-270
IsEnabledWithoutLengthTests(p) ==
  ~ ( \/ ~pgaudit_log_shm[p]
      \/ guc_pgaudit_log_directory[p] = NULL
      \/ guc_pgaudit_log_filename[p] = NULL )

pgauditlogtofile_is_enabled(p) ==
  ~ ( \/ ~pgaudit_log_shm[p]
      \/ guc_pgaudit_log_directory[p] = NULL
      \/ guc_pgaudit_log_filename[p] = NULL
      \/ Len(guc_pgaudit_log_directory[p]) = 0
      \/ Len(guc_pgaudit_log_filename[p]) = 0 )

HasAuditPrefix(message) ==
  pg_strncasecmp_eq(message, PGAUDIT_PREFIX_LINE, Len(PGAUDIT_PREFIX_LINE))

pgauditlogtofile_is_open_file(p) == file_handler[p] # NULL

\* appendStringInfoChar(buf, c)
appendStringInfoChar(b, c) == Append(b, c)

\* lines 634-641: the characters of data, every double quote doubled
RECURSIVE AppendEscaped(_, _)
AppendEscaped(b, data) ==
  IF data = << >> THEN b
  ELSE AppendEscaped(
         appendStringInfoChar(
           IF Head(data) = "\"" THEN appendStringInfoChar(b, "\"") ELSE b,
           Head(data)),
         Tail(data))

\* append_csv_literal without the doubling of line 636-637
AppendCsvLiteralWithoutDoubling(b, data) ==
  IF data = NULL THEN b
  ELSE appendStringInfoChar(appendStringInfoChar(b, "\"") \o data, "\"")

\* lines 626-642
pgauditlogtofile_append_csv_literal(b, data) ==
  IF data = NULL THEN b
  ELSE appendStringInfoChar(
         AppendEscaped(appendStringInfoChar(b, "\""), data), "\"")

\* the counter without the reset of lines 475-479
NextLineNumberWithoutReset(line, cached_pid, pid) == line + 1

\* the counter after format_audit_line's reset-and-increment
NextLineNumber(line, cached_pid, pid) ==
  IF cached_pid # pid THEN 0 + 1 ELSE line + 1

\* fopen(path, "a") can succeed
CanOpen(path) == path # EMPTY

(* ------------------------------ LWLock --------------------------------- *)
LockFree == [ excl |-> NoProc, shared |-> {} ]
CanAcquireExclusive(l) == l.excl = NoProc /\ l.shared = {}
\* a shared acquisition that does not wait for the exclusive holder
CanAcquireSharedAtOnce(l) == TRUE
CanAcquireShared(l) == l.excl = NoProc
AcquireWithoutHolding(l, p) == l
AcquireExclusive(l, p) == [ l EXCEPT !.excl = p ]
AcquireShared(l, p) == [ l EXCEPT !.shared = @ \cup { p } ]
Release(l, p) ==
  [ excl |-> IF l.excl = p THEN NoProc ELSE l.excl, shared |-> l.shared \ { p } ]

(* ------------------------------- Init ---------------------------------- *)
NoRecord == [ message |-> EMPTY, detail |-> NULL, output_to_server |-> TRUE ]
NoObservation == [ deadline |-> -1, at |-> -1 ]

\* what every initial state shares: the settings of postgresql.conf, no file
\* open, no record in hand
InitBackend(dirs, patterns, ages, offsets) ==
  /\ tm_gmtoff \in offsets
  /\ prev_emit_log_hook \in BOOLEAN
  /\ shm_filename = EMPTY
  /\ shm_lock = LockFree
  /\ AddinShmemInitLock = NoProc
  /\ \E d \in dirs : guc_pgaudit_log_directory = [ p \in Procs |-> d ]
  /\ \E f \in patterns : guc_pgaudit_log_filename = [ p \in Procs |-> f ]
  /\ \E a \in ages :
       guc_pgaudit_log_rotation_age = [ p \in Procs |-> a ]
  /\ file_handler = [ p \in Procs |-> NULL ]
  /\ filename_in_use = [ p \in Procs |-> EMPTY ]
  /\ current_rotation_time = [ p \in Procs |-> 0 ]
  /\ opened = [ p \in Procs |-> TRUE ]
  /\ found = [ p \in Procs |-> FALSE ]
  /\ log_line_number = [ p \in Procs |-> 0 ]
  /\ log_my_pid = [ p \in Procs |-> NoPid ]
  /\ MyProcPid = [ p \in Procs |-> "pid1" ]
  /\ edata = [ p \in Procs |-> NoRecord ]
  /\ buf = [ p \in Procs |-> EMPTY ]
  /\ fallback_calls = [ p \in Procs |-> 0 ]
  /\ recorded = [ p \in Procs |-> "none" ]
  /\ due = [ p \in Procs |-> -1 ]
  /\ observed = [ p \in Procs |-> NoObservation ]
  /\ rotated = [ p \in Procs |-> FALSE ]
  /\ nr_last = [ p \in Procs |-> "void" ]
  /\ name_before = EMPTY

InitProcess(running, dirs, patterns) ==
  InitBackend(dirs, patterns, RotationAges, TzOffsets)

\* the postmaster ran shmem_startup (lines 214-224) at time 0 and forked the
\* backends of `running`, which inherit its pointer; the time is now `now`
InitForked(running, now) ==
  /\ InitProcess(running, Directories \ { NULL, EMPTY },
                  Filenames \ { NULL, EMPTY })
  /\ clock = now
  /\ shm_found = TRUE
  /\ shm_force_rotation = TRUE
  /\ \E a \in RotationAges :
       shm_next_rotation_time =
         pgauditlogtofile_calculate_next_rotation_time(0, a, tm_gmtoff)
  /\ pc = [ p \in Procs |-> IF p \in running THEN "idle" ELSE "off" ]
  /\ pgaudit_log_shm = [ p \in Procs |-> TRUE ]

\* no process has run shmem_startup yet (each backend runs it itself)
InitFresh(running) ==
  /\ InitProcess(running, Directories, Filenames)
  /\ clock = 0
  /\ shm_found = FALSE
  /\ shm_force_rotation = FALSE
  /\ shm_next_rotation_time = 0
  /\ pc = [ p \in Procs |-> IF p \in running THEN "start" ELSE "off" ]
  /\ pgaudit_log_shm = [ p \in Procs |-> FALSE ]

(* --------------------------- shmem_startup ----------------------------- *)
\* lines 212-214
ShmemStartupAcquire(p) ==
  /\ pc[p] = "start"
  /\ AddinShmemInitLock = NoProc
  /\ AddinShmemInitLock' = p
  /\ pgaudit_log_shm' = [ pgaudit_log_shm EXCEPT ![p] = FALSE ]
  /\ pc' = [ pc EXCEPT ![p] = "ss_init" ]
  /\ UNCHANGED << records_left, shm_found, shm_filename, shm_force_rotation,
                  shm_next_rotation_time, shm_lock, guc_vars, env_vars,
                  file_vars, fmt_vars, rec_vars, loc_vars, nr_last,
                  name_before, buf >>

\* the initialisation of lines 217-222 without the test of `found`
ShmemInitStructAlways(p) ==
  /\ pc[p] = "ss_init"
  /\ pgaudit_log_shm' = [ pgaudit_log_shm EXCEPT ![p] = TRUE ]
  /\ found' = [ found EXCEPT ![p] = shm_found ]
  /\ shm_found' = TRUE
  /\ shm_force_rotation' = TRUE
  /\ shm_next_rotation_time' =
       pgauditlogtofile_calculate_next_rotation_time(
         clock, guc_pgaudit_log_rotation_age[p], tm_gmtoff)
  /\ pc' = [ pc EXCEPT ![p] = "ss_rel" ]
  /\ UNCHANGED << records_left, shm_filename, shm_lock, AddinShmemInitLock, guc_vars,
                  env_vars, file_vars, fmt_vars, rec_vars,
                  current_rotation_time, opened, nr_last, name_before, buf >>

\* lines 215-223: ShmemInitStruct, and the initialisation when not found
ShmemInitStruct(p) ==
  /\ pc[p] = "ss_init"
  /\ shm_found \/ guc_pgaudit_log_rotation_age[p] # 0
  /\ pgaudit_log_shm' = [ pgaudit_log_shm EXCEPT ![p] = TRUE ]
  /\ found' = [ found EXCEPT ![p] = shm_found ]
  /\ shm_found' = TRUE
  /\ IF ~shm_found
       THEN /\ shm_force_rotation' = TRUE
            /\ shm_next_rotation_time' =
                 pgauditlogtofile_calculate_next_rotation_time(
                   clock, guc_pgaudit_log_rotation_age[p], tm_gmtoff)
       ELSE UNCHANGED << shm_force_rotation, shm_next_rotation_time >>
  /\ pc' = [ pc EXCEPT ![p] = "ss_rel" ]
  /\ UNCHANGED << records_left, shm_filename, shm_lock, AddinShmemInitLock, guc_vars,
                  env_vars, file_vars, fmt_vars, rec_vars,
                  current_rotation_time, opened, nr_last, name_before, buf >>

\* lines 217-222 with a rotation age of 0: the division of line 359 is
\* undefined.  Either it traps and the process that was creating the struct
\* dies with AddinShmemInitLock held, or it completes with `now` as remainder
ShmemInitDivideByZero(p) ==
  /\ pc[p] = "ss_init"
  /\ ~shm_found
  /\ guc_pgaudit_log_rotation_age[p] = 0
  /\ pgaudit_log_shm' = [ pgaudit_log_shm EXCEPT ![p] = TRUE ]
  /\ found' = [ found EXCEPT ![p] = FALSE ]
  /\ shm_found' = TRUE
  /\ shm_force_rotation' = TRUE
  /\ \/ /\ pc' = [ pc EXCEPT ![p] = "sigfpe" ]
        /\ UNCHANGED shm_next_rotation_time
     \/ /\ shm_next_rotation_time' = (clock + tm_gmtoff) - (clock + tm_gmtoff)
                                        + 0 - tm_gmtoff
        /\ pc' = [ pc EXCEPT ![p] = "ss_rel" ]
  /\ UNCHANGED << records_left, shm_filename, shm_lock, AddinShmemInitLock, guc_vars,
                  env_vars, file_vars, fmt_vars, rec_vars,
                  current_rotation_time, opened, nr_last, name_before, buf >>

\* lines 224-228
ShmemStartupRelease(p) ==
  /\ pc[p] = "ss_rel"
  /\ AddinShmemInitLock' = NoProc
  /\ found' = [ found EXCEPT ![p] = FALSE ]
  /\ pc' = [ pc EXCEPT ![p] = "idle" ]
  /\ UNCHANGED << records_left, shm_found, shm_filename, shm_force_rotation,
                  shm_next_rotation_time, shm_lock, pgaudit_log_shm,
                  guc_vars, env_vars, file_vars, fmt_vars, rec_vars,
                  current_rotation_time, opened, nr_last, name_before, buf >>

(* ----------------------------- guc_assign_* --------------------------- *)
\* a backend reloads its settings between two commands
AtRestForReload(p) == pc[p] \in { "start", "idle" }

\* the body the three assign hooks share (lines 108-112, 124-128, 150-154):
\* return when not attached; test the force flag without the lock
GucAssignTest(p) ==
  /\ pc' = [ pc EXCEPT ![p] =
              IF ~pgaudit_log_shm[p] THEN pc[p]
              ELSE IF shm_force_rotation THEN "ga_ret" ELSE "ga_acq" ]
  /\ UNCHANGED << records_left, shm_vars, pgaudit_log_shm, env_vars,
                  file_vars, fmt_vars, rec_vars, loc_vars, nr_last,
                  name_before, buf >>

\* a backend at rest reloads the edited postgresql.conf: for each setting
\* whose value is new, in the order of their names, the server calls the
\* assign hook and assigns the variable
guc_assign_directory(p) ==
  /\ AtRestForReload(p)
  /\ guc_pgaudit_log_directory[p] # EditedConf.log_directory
  /\ guc_pgaudit_log_directory' =
       [ guc_pgaudit_log_directory EXCEPT ![p] = EditedConf.log_directory ]
  /\ GucAssignTest(p)
  /\ UNCHANGED << guc_pgaudit_log_filename, guc_pgaudit_log_rotation_age >>

guc_assign_filename(p) ==
  /\ AtRestForReload(p)
  /\ guc_pgaudit_log_directory[p] = EditedConf.log_directory
  /\ guc_pgaudit_log_filename[p] # EditedConf.log_filename
  /\ guc_pgaudit_log_filename' =
       [ guc_pgaudit_log_filename EXCEPT ![p] = EditedConf.log_filename ]
  /\ GucAssignTest(p)
  /\ UNCHANGED << guc_pgaudit_log_directory, guc_pgaudit_log_rotation_age >>

guc_assign_rotation_age(p) ==
  /\ AtRestForReload(p)
  /\ guc_pgaudit_log_filename[p] = EditedConf.log_filename
  /\ guc_pgaudit_log_rotation_age[p] # EditedConf.log_rotation_age
  /\ guc_pgaudit_log_rotation_age' =
       [ guc_pgaudit_log_rotation_age EXCEPT ![p] =
           EditedConf.log_rotation_age ]
  /\ GucAssignTest(p)
  /\ UNCHANGED << guc_pgaudit_log_directory, guc_pgaudit_log_filename >>

\* a backend at rest reloads a postgresql.conf in which only the rotation
\* age is new, and positive
ReloadRotationAge(p) ==
  /\ AtRestForReload(p)
  /\ \E newval \in PositiveAges \ { guc_pgaudit_log_rotation_age[p] } :
       guc_pgaudit_log_rotation_age' =
         [ guc_pgaudit_log_rotation_age EXCEPT ![p] = newval ]
  /\ GucAssignTest(p)
  /\ UNCHANGED << guc_pgaudit_log_directory, guc_pgaudit_log_filename >>

\* lines 113, 129, 155
GucAssignAcquire(p) ==
  /\ pc[p] = "ga_acq"
  /\ CanAcquireExclusive(shm_lock)
  /\ shm_lock' = AcquireExclusive(shm_lock, p)
  /\ pc' = [ pc EXCEPT ![p] = "ga_set" ]
  /\ UNCHANGED << records_left, shm_found, shm_filename, shm_force_rotation,
                  shm_next_rotation_time, AddinShmemInitLock,
                  pgaudit_log_shm, guc_vars, env_vars, file_vars, fmt_vars,
                  rec_vars, loc_vars, nr_last, name_before, buf >>

\* the hook releases the lock without having set the flag
GucAssignSetNothing(p) ==
  /\ pc[p] = "ga_set"
  /\ shm_lock' = Release(shm_lock, p)
  /\ pc' = [ pc EXCEPT ![p] = "idle" ]
  /\ UNCHANGED << records_left, shm_found, shm_filename, shm_force_rotation,
                  shm_next_rotation_time, AddinShmemInitLock,
                  pgaudit_log_shm, guc_vars, env_vars, file_vars, fmt_vars,
                  rec_vars, loc_vars, nr_last, name_before, buf >>

\* lines 114-116, 130-132, 156-157
GucAssignSet(p) ==
  /\ pc[p] = "ga_set"
  /\ shm_force_rotation' = TRUE
  /\ shm_lock' = Release(shm_lock, p)
  /\ pc' = [ pc EXCEPT ![p] = "idle" ]
  /\ UNCHANGED << records_left, shm_found, shm_filename,
                  shm_next_rotation_time, AddinShmemInitLock,
                  pgaudit_log_shm, guc_vars, env_vars, file_vars, fmt_vars,
                  rec_vars, loc_vars, nr_last, name_before, buf >>

\* line 116, 132, 157 when the flag was set already
GucAssignReturn(p) ==
  /\ pc[p] = "ga_ret"
  /\ pc' = [ pc EXCEPT ![p] = "idle" ]
  /\ UNCHANGED << records_left, shm_vars, pgaudit_log_shm, guc_vars,
                  env_vars, file_vars, fmt_vars, rec_vars, loc_vars, nr_last,
                  name_before, buf >>

(* ------------------------------ emit_log ------------------------------- *)
\* what the fallback branch does: prev_emit_log_hook(edata) when it is set
CallPrevHook(p) ==
  fallback_calls' =
    [ fallback_calls EXCEPT ![p] = IF prev_emit_log_hook THEN @ + 1 ELSE @ ]

AtRest(p) == pc[p] \in { "start", "idle" }

\* the server hands one more record to the hook (records_left counts the
\* records still to come; a negative value stands for a server that never
\* stops)
TakeRecord ==
  /\ records_left # 0
  /\ records_left' = IF records_left > 0 THEN records_left - 1
                                          ELSE records_left

\* emit_log suppressing the record whatever record_audit returned
EmitLogFinishAlwaysSuppress(p, ok) ==
  /\ edata' = [ edata EXCEPT ![p].output_to_server = FALSE ]
  /\ UNCHANGED fallback_calls

\* lines 253-260: what emit_log does with record_audit's result
EmitLogFinish(p, ok) ==
  IF ok
    THEN /\ edata' = [ edata EXCEPT ![p].output_to_server = FALSE ]
         /\ UNCHANGED fallback_calls
    ELSE /\ CallPrevHook(p)
         /\ UNCHANGED edata

\* lines 237-243: not a pgaudit line
EmitLogNotAudit(p) ==
  /\ AtRest(p)
  /\ TakeRecord
  /\ \E m \in Messages :
       /\ ~HasAuditPrefix(m)
       /\ edata' = [ edata EXCEPT ![p] = [ NoRecord EXCEPT !.message = m ] ]
  /\ CallPrevHook(p)
  /\ recorded' = [ recorded EXCEPT ![p] = "skipped" ]
  /\ pc' = [ pc EXCEPT ![p] = "el_ret" ]
  /\ UNCHANGED << shm_vars, pgaudit_log_shm, guc_vars, env_vars, file_vars,
                  fmt_vars, due, observed, rotated, loc_vars, nr_last, name_before, buf >>

\* lines 245-251: a pgaudit line while not enabled
EmitLogDisabled(p) ==
  /\ AtRest(p)
  /\ TakeRecord
  /\ ~pgauditlogtofile_is_enabled(p)
  /\ \E m \in Messages :
       /\ HasAuditPrefix(m)
       /\ edata' = [ edata EXCEPT ![p] = [ NoRecord EXCEPT !.message = m ] ]
  /\ CallPrevHook(p)
  /\ recorded' = [ recorded EXCEPT ![p] = "skipped" ]
  /\ pc' = [ pc EXCEPT ![p] = "el_ret" ]
  /\ UNCHANGED << shm_vars, pgaudit_log_shm, guc_vars, env_vars, file_vars,
                  fmt_vars, due, observed, rotated, loc_vars, nr_last, name_before, buf >>

\* lines 253, 280, 321: a pgaudit line while enabled enters record_audit and
\* needs_rotate_file, which reads force_rotation without the lock
EmitLogAuditOf(p, records) ==
  /\ AtRest(p)
  /\ TakeRecord
  /\ log_line_number[p] < MaxLine \/ log_my_pid[p] # MyProcPid[p]
  /\ pgauditlogtofile_is_enabled(p)
  /\ \E r \in records :
       /\ HasAuditPrefix(r.message)
       /\ edata' = [ edata EXCEPT ![p] = r ]
  /\ due' = [ due EXCEPT ![p] = IF clock >= shm_next_rotation_time
                                  THEN shm_next_rotation_time ELSE -1 ]
  /\ pc' = [ pc EXCEPT ![p] = IF shm_force_rotation THEN "nr_force_acq"
                              ELSE "nr_name" ]
  /\ UNCHANGED << shm_vars, pgaudit_log_shm, guc_vars, env_vars, file_vars,
                  fmt_vars, fallback_calls, recorded, observed, rotated, loc_vars,
                  nr_last, name_before, buf >>

EmitLogAudit(p) ==
  EmitLogAuditOf(p, { [ NoRecord EXCEPT !.message = m ] : m \in Messages })

\* emit_log returns to the server's error reporting
EmitLogReturn(p) ==
  /\ pc[p] = "el_ret"
  /\ pc' = [ pc EXCEPT ![p] = IF pgaudit_log_shm[p] THEN "idle" ELSE "start" ]
  /\ edata' = [ edata EXCEPT ![p] = NoRecord ]
  /\ fallback_calls' = [ fallback_calls EXCEPT ![p] = 0 ]
  /\ recorded' = [ recorded EXCEPT ![p] = "none" ]
  /\ due' = [ due EXCEPT ![p] = -1 ]
  /\ observed' = [ observed EXCEPT ![p] = NoObservation ]
  /\ rotated' = [ rotated EXCEPT ![p] = FALSE ]
  /\ buf' = [ buf EXCEPT ![p] = EMPTY ]
  /\ UNCHANGED << records_left, shm_vars, pgaudit_log_shm, guc_vars, env_vars, file_vars,
                  fmt_vars, loc_vars, nr_last, name_before >>

(* -------------------------- needs_rotate_file -------------------------- *)
\* line 322
ForceAcquire(p) ==
  /\ pc[p] = "nr_force_acq"
  /\ CanAcquireExclusive(shm_lock)
  /\ shm_lock' = AcquireExclusive(shm_lock, p)
  /\ pc' = [ pc EXCEPT ![p] = "nr_force_set" ]
  /\ UNCHANGED << records_left, shm_found, shm_filename, shm_force_rotation,
                  shm_next_rotation_time, AddinShmemInitLock,
                  pgaudit_log_shm, guc_vars, env_vars, file_vars, fmt_vars,
                  rec_vars, loc_vars, nr_last, name_before, buf >>

\* lines 323-325
ForceClear(p) ==
  /\ pc[p] = "nr_force_set"
  /\ shm_force_rotation' = FALSE
  /\ shm_lock' = Release(shm_lock, p)
  /\ nr_last' = [ nr_last EXCEPT ![p] = "force" ]
  /\ pc' = [ pc EXCEPT ![p] = "cf_read" ]
  /\ UNCHANGED << records_left, shm_found, shm_filename, shm_next_rotation_time,
                  AddinShmemInitLock, pgaudit_log_shm, guc_vars, env_vars,
                  file_vars, fmt_vars, rec_vars, loc_vars, name_before, buf >>

\* where record_audit goes when needs_rotate_file returned false (286)
AfterNoRotate(p) ==
  IF pgauditlogtofile_is_open_file(p) THEN "wa_write" ELSE "of_acq"

\* lines 330-332: the comparison reads the shared filename without the lock
NameCheck(p) ==
  /\ pc[p] = "nr_name"
  /\ IF ~pg_strcasecmp_eq(filename_in_use[p], shm_filename)
       THEN /\ nr_last' = [ nr_last EXCEPT ![p] = "name" ]
            /\ pc' = [ pc EXCEPT ![p] = "cf_read" ]
       ELSE /\ pc' = [ pc EXCEPT ![p] = "nr_time" ]
            /\ UNCHANGED nr_last
  /\ UNCHANGED << records_left, shm_vars, pgaudit_log_shm, guc_vars, env_vars, file_vars,
                  fmt_vars, rec_vars, loc_vars, name_before, buf >>

\* line 336, and line 344 when the deadline has not passed
TimeCheck(p) ==
  /\ pc[p] = "nr_time"
  /\ IF clock >= shm_next_rotation_time
       THEN /\ observed' = [ observed EXCEPT ![p] =
                 [ deadline |-> shm_next_rotation_time, at |-> clock ] ]
            /\ pc' = [ pc EXCEPT ![p] = "nr_time_acq" ]
            /\ UNCHANGED nr_last
       ELSE /\ nr_last' = [ nr_last EXCEPT ![p] = "false" ]
            /\ pc' = [ pc EXCEPT ![p] = AfterNoRotate(p) ]
            /\ UNCHANGED observed
  /\ UNCHANGED << records_left, shm_vars, pgaudit_log_shm, guc_vars, env_vars, file_vars,
                  fmt_vars, edata, fallback_calls, recorded, due, rotated, loc_vars,
                  name_before, buf >>

\* line 337
TimeAcquire(p) ==
  /\ pc[p] = "nr_time_acq"
  /\ CanAcquireExclusive(shm_lock)
  /\ shm_lock' = AcquireExclusive(shm_lock, p)
  /\ pc' = [ pc EXCEPT ![p] = "nr_time_set" ]
  /\ UNCHANGED << records_left, shm_found, shm_filename, shm_force_rotation,
                  shm_next_rotation_time, AddinShmemInitLock,
                  pgaudit_log_shm, guc_vars, env_vars, file_vars, fmt_vars,
                  rec_vars, loc_vars, nr_last, name_before, buf >>

\* lines 338-341
TimeStore(p) ==
  /\ pc[p] = "nr_time_set"
  /\ guc_pgaudit_log_rotation_age[p] # 0
  /\ shm_next_rotation_time' =
       pgauditlogtofile_calculate_next_rotation_time(
         clock, guc_pgaudit_log_rotation_age[p], tm_gmtoff)
  /\ shm_lock' = Release(shm_lock, p)
  /\ nr_last' = [ nr_last EXCEPT ![p] = "deadline" ]
  /\ pc' = [ pc EXCEPT ![p] = "cf_read" ]
  /\ UNCHANGED << records_left, shm_found, shm_filename, shm_force_rotation,
                  AddinShmemInitLock, pgaudit_log_shm, guc_vars, env_vars,
                  file_vars, fmt_vars, rec_vars, loc_vars, name_before, buf >>

\* lines 338-341 with a rotation age of 0: `now % rotinterval` at line 359
\* divides by zero, which is undefined.  Either the division traps (SIGFPE:
\* the backend leaves the hook through error recovery, which releases its
\* locks), or it completes with `now` as remainder, as on processors whose
\* division by zero yields 0
TimeStoreDivideByZero(p) ==
  /\ pc[p] = "nr_time_set"
  /\ guc_pgaudit_log_rotation_age[p] = 0
  /\ shm_lock' = Release(shm_lock, p)
  /\ \/ /\ pc' = [ pc EXCEPT ![p] = "sigfpe" ]
        /\ UNCHANGED << shm_next_rotation_time, nr_last >>
     \/ /\ shm_next_rotation_time' = (clock + tm_gmtoff) - (clock + tm_gmtoff)
                                        + 0 - tm_gmtoff
        /\ nr_last' = [ nr_last EXCEPT ![p] = "deadline" ]
        /\ pc' = [ pc EXCEPT ![p] = "cf_read" ]
  /\ UNCHANGED << records_left, shm_found, shm_filename, shm_force_rotation,
                  AddinShmemInitLock, pgaudit_log_shm, guc_vars, env_vars,
                  file_vars, fmt_vars, rec_vars, loc_vars, name_before, buf >>

(* ------------------------- calculate_filename -------------------------- *)
\* lines 413-415: next_rotation_time is read before the lock is taken
FilenameReadTime(p) ==
  /\ pc[p] = "cf_read"
  /\ current_rotation_time' = [ current_rotation_time EXCEPT ![p] =
       shm_next_rotation_time
         - guc_pgaudit_log_rotation_age[p] * SECS_PER_MINUTE ]
  /\ pc' = [ pc EXCEPT ![p] = "cf_acq" ]
  /\ UNCHANGED << records_left, shm_vars, pgaudit_log_shm, guc_vars, env_vars, file_vars,
                  fmt_vars, rec_vars, opened, found, nr_last, name_before, buf >>

\* line 417
FilenameAcquire(p) ==
  /\ pc[p] = "cf_acq"
  /\ CanAcquireExclusive(shm_lock)
  /\ shm_lock' = AcquireExclusive(shm_lock, p)
  /\ pc' = [ pc EXCEPT ![p] = "cf_memset" ]
  /\ UNCHANGED << records_left, shm_found, shm_filename, shm_force_rotation,
                  shm_next_rotation_time, AddinShmemInitLock,
                  pgaudit_log_shm, guc_vars, env_vars, file_vars, fmt_vars,
                  rec_vars, loc_vars, nr_last, name_before, buf >>

\* line 418
FilenameMemset(p) ==
  /\ pc[p] = "cf_memset"
  /\ name_before' = shm_filename
  /\ shm_filename' = EMPTY
  /\ pc' = [ pc EXCEPT ![p] = "cf_snprintf" ]
  /\ UNCHANGED << records_left, shm_found, shm_force_rotation, shm_next_rotation_time,
                  shm_lock, AddinShmemInitLock, pgaudit_log_shm, guc_vars,
                  env_vars, file_vars, fmt_vars, rec_vars, loc_vars,
                  nr_last, buf >>

\* lines 419-421
FilenameSnprintf(p) ==
  /\ pc[p] = "cf_snprintf"
  /\ shm_filename' = guc_pgaudit_log_directory[p] \o << "/" >>
  /\ pc' = [ pc EXCEPT ![p] = "cf_strftime" ]
  /\ UNCHANGED << records_left, shm_found, shm_force_rotation, shm_next_rotation_time,
                  shm_lock, AddinShmemInitLock, pgaudit_log_shm, guc_vars,
                  env_vars, file_vars, fmt_vars, rec_vars, loc_vars,
                  nr_last, name_before, buf >>

\* lines 423-426; a filename other than the one replaced ends every other
\* backend's run of needs_rotate_file calls between which nothing changed
FilenameStrftime(p) ==
  /\ pc[p] = "cf_strftime"
  /\ shm_filename' =
       shm_filename
         \o pg_strftime(guc_pgaudit_log_filename[p],
                        current_rotation_time[p], tm_gmtoff)
  /\ shm_lock' = Release(shm_lock, p)
  /\ nr_last' = IF shm_filename' # name_before
                  THEN [ q \in Procs |-> IF q = p THEN nr_last[q] ELSE "void" ]
                  ELSE nr_last
  /\ name_before' = EMPTY
  /\ current_rotation_time' = [ current_rotation_time EXCEPT ![p] = 0 ]
  /\ pc' = [ pc EXCEPT ![p] = "close" ]
  /\ UNCHANGED << records_left, shm_found, shm_force_rotation, shm_next_rotation_time,
                  AddinShmemInitLock, pgaudit_log_shm, guc_vars, env_vars,
                  file_vars, fmt_vars, rec_vars, opened, found, buf >>

(* ------------------------ close_file, open_file ------------------------ *)
\* lines 283, 299-304
CloseFile(p) ==
  /\ pc[p] = "close"
  /\ file_handler' = [ file_handler EXCEPT ![p] = NULL ]
  /\ rotated' = [ rotated EXCEPT ![p] = TRUE ]
  /\ pc' = [ pc EXCEPT ![p] = "of_acq" ]
  /\ UNCHANGED << records_left, shm_vars, pgaudit_log_shm, guc_vars, env_vars,
                  filename_in_use, fmt_vars, edata, fallback_calls, recorded,
                  due, observed, loc_vars, nr_last, name_before, buf >>

\* lines 374-381
OpenAcquire(p) ==
  /\ pc[p] = "of_acq"
  /\ CanAcquireShared(shm_lock)
  /\ shm_lock' = AcquireShared(shm_lock, p)
  /\ pc' = [ pc EXCEPT ![p] = "of_fopen" ]
  /\ UNCHANGED << records_left, shm_found, shm_filename, shm_force_rotation,
                  shm_next_rotation_time, AddinShmemInitLock,
                  pgaudit_log_shm, guc_vars, env_vars, file_vars, fmt_vars,
                  rec_vars, loc_vars, nr_last, name_before, buf >>

\* lines 384-394: fopen succeeds
OpenSucceeds(p) ==
  /\ pc[p] = "of_fopen"
  /\ CanOpen(shm_filename)
  /\ file_handler' = [ file_handler EXCEPT ![p] = shm_filename ]
  /\ filename_in_use' = [ filename_in_use EXCEPT ![p] = shm_filename ]
  /\ opened' = [ opened EXCEPT ![p] = TRUE ]
  /\ pc' = [ pc EXCEPT ![p] = "of_rel" ]
  /\ UNCHANGED << records_left, shm_vars, pgaudit_log_shm, guc_vars, env_vars, fmt_vars,
                  rec_vars, current_rotation_time, found, nr_last,
                  name_before, buf >>

\* a failed fopen after which line 394 runs all the same
OpenFailsButCopiesName(p) ==
  /\ pc[p] = "of_fopen"
  /\ file_handler' = [ file_handler EXCEPT ![p] = NULL ]
  /\ filename_in_use' = [ filename_in_use EXCEPT ![p] = shm_filename ]
  /\ opened' = [ opened EXCEPT ![p] = FALSE ]
  /\ pc' = [ pc EXCEPT ![p] = "of_rel" ]
  /\ UNCHANGED << records_left, shm_vars, pgaudit_log_shm, guc_vars,
                  env_vars, fmt_vars, rec_vars, current_rotation_time,
                  found, nr_last, name_before, buf >>

\* lines 384, 395-402: fopen fails
OpenFails(p) ==
  /\ pc[p] = "of_fopen"
  /\ file_handler' = [ file_handler EXCEPT ![p] = NULL ]
  /\ opened' = [ opened EXCEPT ![p] = FALSE ]
  /\ pc' = [ pc EXCEPT ![p] = "of_rel" ]
  /\ UNCHANGED << records_left, shm_vars, pgaudit_log_shm, guc_vars, env_vars,
                  filename_in_use, fmt_vars, rec_vars,
                  current_rotation_time, found, nr_last, name_before, buf >>

\* lines 403-405, then 287-290 and 256-260 when the open failed
OpenRelease(p) ==
  /\ pc[p] = "of_rel"
  /\ shm_lock' = Release(shm_lock, p)
  /\ opened' = [ opened EXCEPT ![p] = TRUE ]
  /\ IF opened[p]
       THEN /\ pc' = [ pc EXCEPT ![p] = "wa_write" ]
            /\ UNCHANGED << edata, fallback_calls, recorded >>
       ELSE /\ recorded' = [ recorded EXCEPT ![p] = "open_failed" ]
            /\ EmitLogFinish(p, FALSE)
            /\ pc' = [ pc EXCEPT ![p] = "el_ret" ]
  /\ UNCHANGED << records_left, shm_found, shm_filename, shm_force_rotation,
                  shm_next_rotation_time, AddinShmemInitLock,
                  pgaudit_log_shm, guc_vars, env_vars, file_vars, fmt_vars,
                  due, observed, rotated, current_rotation_time, found,
                  nr_last, name_before, buf >>

(* ----------------------------- write_audit ----------------------------- *)
\* lines 475-480 of format_audit_line
FormatAuditLine(p) ==
  /\ log_line_number' = [ log_line_number EXCEPT ![p] =
       NextLineNumber(log_line_number[p], log_my_pid[p], MyProcPid[p]) ]
  /\ log_my_pid' = [ log_my_pid EXCEPT ![p] = MyProcPid[p] ]
  /\ buf' = [ buf EXCEPT ![p] =
       appendStringInfoChar(
         pgauditlogtofile_append_csv_literal(
           appendStringInfoChar(
             pgauditlogtofile_append_csv_literal(EMPTY, edata[p].message),
             ","),
           edata[p].detail),
         ",") ]

\* lines 436-454 with rc == buf.len, then 253-255
WriteSucceeds(p) ==
  /\ pc[p] = "wa_write"
  /\ FormatAuditLine(p)
  /\ recorded' = [ recorded EXCEPT ![p] = "ok" ]
  /\ EmitLogFinish(p, TRUE)
  /\ pc' = [ pc EXCEPT ![p] = "el_ret" ]
  /\ UNCHANGED << records_left, shm_vars, pgaudit_log_shm, guc_vars, env_vars, file_vars,
                  MyProcPid, due, observed, rotated, loc_vars,
                  nr_last, name_before >>

\* lines 436-454 with rc != buf.len, then 256-260
WriteFails(p) ==
  /\ pc[p] = "wa_write"
  /\ FormatAuditLine(p)
  /\ recorded' = [ recorded EXCEPT ![p] = "write_failed" ]
  /\ EmitLogFinish(p, FALSE)
  /\ pc' = [ pc EXCEPT ![p] = "el_ret" ]
  /\ UNCHANGED << records_left, shm_vars, pgaudit_log_shm, guc_vars, env_vars, file_vars,
                  MyProcPid, due, observed, rotated, loc_vars, nr_last,
                  name_before >>

(* ------------------------------ the clock ------------------------------ *)
\* time passes; reaching the stored rotation time is a deadline passage
Elapse(d) ==
  /\ clock' = clock + d
  /\ nr_last' = IF shm_found /\ clock < shm_next_rotation_time
                     /\ clock' >= shm_next_rotation_time
                  THEN [ q \in Procs |-> "void" ] ELSE nr_last
  /\ UNCHANGED << records_left, tm_gmtoff, prev_emit_log_hook, shm_vars, pc,
                  pgaudit_log_shm, guc_vars, file_vars, fmt_vars, rec_vars,
                  loc_vars, name_before, buf >>

Tick ==
  /\ clock < MaxTime
  /\ Elapse(ClockStep)

(* ------------------------- a backend is forked ------------------------ *)
\* the process continues as a child of itself: the statics of
\* format_audit_line are inherited, MyProcPid is new
Fork(p) ==
  /\ AtRest(p)
  /\ \E pid \in Pids \ { MyProcPid[p] } :
       MyProcPid' = [ MyProcPid EXCEPT ![p] = pid ]
  /\ UNCHANGED << records_left, shm_vars, pc, pgaudit_log_shm, guc_vars,
                  env_vars, file_vars, log_line_number, log_my_pid,
                  rec_vars, loc_vars, nr_last, name_before, buf >>

(* --------------------------- specifications ---------------------------- *)
Startup(p) ==
  \/ ShmemStartupAcquire(p)
  \/ ShmemInitStruct(p)
  \/ ShmemStartupRelease(p)

PassThrough(p) ==
  \/ EmitLogNotAudit(p)
  \/ EmitLogDisabled(p)

NeedsRotate(p) ==
  \/ ForceAcquire(p)
  \/ ForceClear(p)
  \/ NameCheck(p)
  \/ TimeCheck(p)
  \/ TimeAcquire(p)
  \/ TimeStore(p)

Rotate(p) ==
  \/ FilenameReadTime(p)
  \/ FilenameAcquire(p)
  \/ FilenameMemset(p)
  \/ FilenameSnprintf(p)
  \/ FilenameStrftime(p)
  \/ CloseFile(p)

RecordAuditOk(p) ==
  \/ EmitLogAudit(p)
  \/ NeedsRotate(p)
  \/ Rotate(p)
  \/ OpenAcquire(p)
  \/ OpenSucceeds(p)
  \/ OpenRelease(p)
  \/ WriteSucceeds(p)
  \/ EmitLogReturn(p)

RecordAudit(p) ==
  \/ RecordAuditOk(p)
  \/ OpenFails(p)
  \/ WriteFails(p)

\* two backends of a running server handle audit records as time passes
Init ==
  /\ InitForked({ "p1", "p2" }, 0)
  /\ records_left = MaxRecords

Next == (\E p \in Procs : RecordAudit(p)) \/ Tick

Spec == Init /\ [][Next]_vars

\* three backends each handle one record at the instant the first rotation
\* time is reached; every open and write succeeds
InitThree ==
  /\ \E a \in RotationAges : \E off \in TzOffsets :
       InitForked(Procs,
         pgauditlogtofile_calculate_next_rotation_time(0, a, off))
  /\ records_left = Cardinality(Procs)

NextThree == \E p \in Procs : RecordAuditOk(p)

SpecThree == InitThree /\ [][NextThree]_vars

\* a backend that attaches by itself, under every setting of the directory
\* and the pattern, handles records of every kind, and forks
InitLife ==
  /\ InitFresh({ "p1" })
  /\ records_left = MaxRecords

NextLife ==
  \/ \E p \in Procs : Startup(p) \/ PassThrough(p) \/ RecordAudit(p) \/ Fork(p)
  \/ Tick

SpecLife == InitLife /\ [][NextLife]_vars

\* two backends of a server that never stops handle audit records for ever,
\* from the instant the first rotation time is reached: the settings stay as
\* they are, no later rotation time is reached, every open and write
\* succeeds, and a backend that can take a step takes one in the end
Running == { p \in Procs : pc[p] # "off" }

InitConverge ==
  /\ \E a \in RotationAges : \E off \in TzOffsets :
       InitForked({ "p1", "p2" },
         pgauditlogtofile_calculate_next_rotation_time(0, a, off))
  /\ prev_emit_log_hook = FALSE
  /\ records_left = -1

\* a backend that has given MaxLine line numbers is forked anew
NextConverge ==
  \E p \in Procs :
    \/ RecordAuditOk(p)
    \/ log_line_number[p] = MaxLine /\ Fork(p)

SpecConverge ==
  /\ InitConverge
  /\ [][NextConverge]_vars
  /\ \A p \in { "p1", "p2" } : WF_vars(RecordAuditOk(p))

\* one backend attaches at some time of day, under several rotation ages and
\* timezone offsets, and handles audit records with pauses in between
InitDeadline ==
  /\ InitBackend(Directories \ { NULL, EMPTY }, Filenames \ { NULL, EMPTY },
                  PositiveAges, WideOffsets)
  /\ clock \in StartClocks
  /\ shm_found = FALSE
  /\ shm_force_rotation = FALSE
  /\ shm_next_rotation_time = 0
  /\ pc = [ p \in Procs |-> IF p = "p1" THEN "start" ELSE "off" ]
  /\ pgaudit_log_shm = [ p \in Procs |-> FALSE ]
  /\ prev_emit_log_hook = FALSE
  /\ records_left = MaxRecords

NextDeadline ==
  \/ \E p \in Procs : Startup(p) \/ RecordAuditOk(p)
  \/ \E d \in Pauses : clock + d <= DeadlineHorizon /\ Elapse(d)

SpecDeadline == InitDeadline /\ [][NextDeadline]_vars

\* one backend of a running server handles one audit record, of any text
InitCsv ==
  /\ InitForked({ "p1" }, 0)
  /\ prev_emit_log_hook = FALSE
  /\ records_left = 1

NextCsv ==
  \E p \in Procs :
    \/ EmitLogAuditOf(p, CsvRecords)
    \/ ForceAcquire(p)
    \/ ForceClear(p)
    \/ Rotate(p)
    \/ OpenAcquire(p)
    \/ OpenSucceeds(p)
    \/ OpenRelease(p)
    \/ WriteSucceeds(p)
    \/ WriteFails(p)
    \/ EmitLogReturn(p)

SpecCsv == InitCsv /\ [][NextCsv]_vars

\* two backends attach by themselves, one after the other, while time passes
\* and the one that is attached already handles audit records
InitAttach ==
  /\ InitBackend(Directories \ { NULL, EMPTY }, Filenames \ { NULL, EMPTY },
                  RotationAges, TzOffsets)
  /\ clock = 0
  /\ shm_found = FALSE
  /\ shm_force_rotation = FALSE
  /\ shm_next_rotation_time = 0
  /\ pc = [ p \in Procs |-> IF p \in { "p1", "p2" } THEN "start" ELSE "off" ]
  /\ pgaudit_log_shm = [ p \in Procs |-> FALSE ]
  /\ prev_emit_log_hook = FALSE
  /\ records_left = MaxRecords

NextAttach ==
  \/ \E p \in Procs : Startup(p) \/ RecordAuditOk(p)
  \/ Tick

SpecAttach == InitAttach /\ [][NextAttach]_vars

\* two backends attach and handle audit records, and each of them reloads the
\* edited postgresql.conf at a time of its own
ConfigChange(p) ==
  \/ guc_assign_directory(p)
  \/ guc_assign_filename(p)
  \/ guc_assign_rotation_age(p)
  \/ GucAssignAcquire(p)
  \/ GucAssignSet(p)
  \/ GucAssignReturn(p)

InitConfig ==
  /\ InitBackend(Directories \ { NULL, EMPTY }, Filenames \ { NULL, EMPTY },
                  RotationAges, TzOffsets)
  /\ clock = 0
  /\ shm_found = FALSE
  /\ shm_force_rotation = FALSE
  /\ shm_next_rotation_time = 0
  /\ pc = [ p \in Procs |-> IF p \in { "p1", "p2" } THEN "start" ELSE "off" ]
  /\ pgaudit_log_shm = [ p \in Procs |-> FALSE ]
  /\ prev_emit_log_hook = FALSE
  /\ records_left = MaxRecords

NextConfig ==
  \E p \in Procs :
    \/ Startup(p)
    \/ ShmemInitDivideByZero(p)
    \/ ConfigChange(p)
    \/ RecordAuditOk(p)
    \/ TimeStoreDivideByZero(p)

SpecConfig == InitConfig /\ [][NextConfig]_vars

\* two backends of a running server handle audit records from the instant
\* the first rotation time is reached, and each of them reloads the rotation
\* age, which stays positive, at a time of its own
InitInterval ==
  /\ \E a \in RotationAges : \E off \in TzOffsets :
       InitForked({ "p1", "p2" },
         pgauditlogtofile_calculate_next_rotation_time(0, a, off))
  /\ prev_emit_log_hook = FALSE
  /\ records_left = MaxRecords

NextInterval ==
  \E p \in Procs :
    \/ ReloadRotationAge(p)
    \/ GucAssignAcquire(p)
    \/ GucAssignSet(p)
    \/ GucAssignReturn(p)
    \/ RecordAuditOk(p)

SpecInterval == InitInterval /\ [][NextInterval]_vars

(* ------------------------------- claims -------------------------------- *)
\* the file of the period that starts at t, as backend p names it
FilenameFor(p, t) ==
  guc_pgaudit_log_directory[p] \o << "/" >>
    \o pg_strftime(guc_pgaudit_log_filename[p], t, tm_gmtoff)

RotationInterval(p) == guc_pgaudit_log_rotation_age[p] * SECS_PER_MINUTE

\* p's needs_rotate_file returns in this step
NeedsRotateReturns(p) ==
  /\ pc[p] \in { "nr_force_set", "nr_name", "nr_time", "nr_time_set" }
  /\ pc'[p] \in { "cf_read", "of_acq", "wa_write" }

\* emit_log has finished with p's record and is about to return
Handled(p) == pc[p] = "el_ret"

\* C1: of the backends that saw the same rotation time as passed, only one
\* stores a new one: a backend that stores at line 338 finds the rotation
\* time it read at line 336 still in place.
C1_OnlyTheFirstStores ==
  [][ \A p \in Procs :
        (pc[p] = "nr_time_set" /\ pc'[p] = "cf_read")
          => shm_next_rotation_time = observed[p].deadline ]_vars

\* C2: two backends that read the same rotation time as passed at the same
\* instant, and whose records were both written before the newly computed
\* rotation time, wrote to one file, the one of the new period.
C2_RacersWriteTheNewFile ==
  \A p, q \in Procs :
    ( /\ p # q
      /\ Handled(p) /\ Handled(q)
      /\ recorded[p] = "ok" /\ recorded[q] = "ok"
      /\ observed[p] # NoObservation
      /\ observed[q] = observed[p]
      /\ clock < pgauditlogtofile_calculate_next_rotation_time(
                   observed[p].at, guc_pgaudit_log_rotation_age[p], tm_gmtoff) )
    => /\ file_handler[p] = file_handler[q]
       /\ file_handler[p] =
            FilenameFor(p, shm_next_rotation_time - RotationInterval(p))

\* C3: a record whose handling began when the stored rotation time had
\* passed is not written to the file of the period before that time, and is
\* written to the file of the period starting at it while that period lasts.
C3_RecordAfterDeadlineInNewFile ==
  \A p \in Procs :
    (Handled(p) /\ recorded[p] = "ok" /\ due[p] # -1)
    => /\ file_handler[p] # FilenameFor(p, due[p] - RotationInterval(p))
       /\ (clock < due[p] + RotationInterval(p)
             => file_handler[p] = FilenameFor(p, due[p]))

\* C4 as stated: when a backend's Rotate (calculate_filename, close_file)
\* ends, its filename_in_use is the shared filename.
C4_InUseAfterRotate ==
  [][ \A p \in Procs :
        (pc[p] = "close" /\ pc'[p] = "of_acq")
          => filename_in_use'[p] = shm_filename' ]_vars

\* C4 as amended: after needs_rotate_file returned true and the Rotate ran,
\* filename_in_use is the shared filename once the open that follows has
\* succeeded, for as long as the backend holds the lock of that open.
C4_InUseAfterOpen ==
  \A p \in Procs :
    (pc[p] = "of_rel" /\ rotated[p] /\ opened[p])
    => /\ filename_in_use[p] = shm_filename
       /\ file_handler[p] = shm_filename

C4_Witness ==
  \E p \in Procs :
    /\ pc[p] = "of_rel" /\ rotated[p] /\ opened[p]
    /\ filename_in_use[p] # EMPTY
    /\ clock >= ClockStep

C6_SuppressedIffRecorded ==
  \A p \in Procs :
    (Handled(p) /\ recorded[p] # "skipped")
    => \/ /\ recorded[p] = "ok"
          /\ ~edata[p].output_to_server
          /\ fallback_calls[p] = 0
       \/ /\ recorded[p] \in { "open_failed", "write_failed" }
          /\ edata[p].output_to_server
          /\ fallback_calls[p] = IF prev_emit_log_hook THEN 1 ELSE 0

C6_Witness ==
  /\ \E p \in Procs :
       Handled(p) /\ recorded[p] = "ok" /\ ~edata[p].output_to_server
  /\ \E q \in Procs :
       Handled(q) /\ recorded[q] = "write_failed" /\ fallback_calls[q] = 1

\* a record is one emit_log does not redirect
NotRedirected(p, message) ==
  \/ ~HasAuditPrefix(message)
  \/ ~pgaudit_log_shm[p]
  \/ guc_pgaudit_log_directory[p] \in { NULL, EMPTY }
  \/ guc_pgaudit_log_filename[p] \in { NULL, EMPTY }

\* C7: the step in which a backend takes a record that has no audit prefix,
\* or takes any record while not attached or with the directory or pattern
\* unset or empty, ends emit_log: the record is as it came, the previous
\* hook (if any) was called once, and the shared filename, flag and rotation
\* time, the backend's stream, filename_in_use and line counter are as before.
C7_PassThroughFrame ==
  [][ \A p \in Procs :
        (AtRest(p) /\ pc'[p] # pc[p] /\ records_left' # records_left
           /\ NotRedirected(p, edata'[p].message))
          => /\ pc'[p] = "el_ret"
             /\ edata'[p].output_to_server
             /\ fallback_calls'[p] = IF prev_emit_log_hook THEN 1 ELSE 0
             /\ UNCHANGED << shm_filename, shm_force_rotation,
                             shm_next_rotation_time, file_handler,
                             filename_in_use, log_line_number >> ]_vars

C7_Witness ==
  \E p \in Procs :
    /\ Handled(p) /\ recorded[p] = "skipped"
    /\ HasAuditPrefix(edata[p].message)
    /\ pgaudit_log_shm[p]
    /\ guc_pgaudit_log_directory[p] = EMPTY
    /\ fallback_calls[p] = 1

\* C8: a failed open leaves the stream closed and filename_in_use as it
\* was; a failed write leaves the stream open on the file it was open on;
\* either way the record keeps output_to_server, the previous hook (if any)
\* was called once, and emit_log returns.
C8_FailuresKeepTheHandle ==
  /\ [][ \A p \in Procs :
           /\ (pc[p] = "of_fopen" /\ pc'[p] = "of_rel" /\ ~opened'[p])
                => /\ file_handler'[p] = NULL
                   /\ filename_in_use'[p] = filename_in_use[p]
           /\ (pc[p] = "wa_write" /\ recorded'[p] = "write_failed")
                => /\ file_handler'[p] = file_handler[p]
                   /\ file_handler'[p] # NULL
                   /\ filename_in_use'[p] = filename_in_use[p] ]_vars
  /\ [] \A p \in Procs :
          (Handled(p) /\ recorded[p] \in { "open_failed", "write_failed" })
          => /\ (recorded[p] = "open_failed") = (file_handler[p] = NULL)
             /\ edata[p].output_to_server
             /\ fallback_calls[p] = IF prev_emit_log_hook THEN 1 ELSE 0
             /\ ENABLED EmitLogReturn(p)

C8_Witness ==
  /\ \E p \in Procs :
       /\ Handled(p) /\ recorded[p] = "open_failed"
       /\ file_handler[p] = NULL
       /\ filename_in_use[p] # shm_filename
  /\ \E q \in Procs :
       /\ Handled(q) /\ recorded[q] = "write_failed"
       /\ file_handler[q] # NULL

\* C9: a step that formats a record gives it the line number after the
\* previous one, or 1 when MyProcPid is not the cached pid, whether or not
\* the write then succeeds; no other step changes the counter.
C9_LineNumbers ==
  [][ \A p \in Procs :
        IF pc[p] = "wa_write" /\ pc'[p] # "wa_write"
          THEN /\ log_line_number'[p] =
                    IF log_my_pid[p] = MyProcPid[p]
                      THEN log_line_number[p] + 1 ELSE 1
               /\ log_my_pid'[p] = MyProcPid[p]
          ELSE log_line_number'[p] = log_line_number[p] ]_vars

C9_Witness ==
  \E p \in Procs :
    /\ pc[p] = "wa_write"
    /\ log_line_number[p] = 2
    /\ log_my_pid[p] = "pid1"
    /\ MyProcPid[p] = "pid2"

\* C10: no backend is at the fopen of open_file while the shared filename
\* is empty.
C10_NoOpenOfEmptyName ==
  \A p \in Procs : pc[p] = "of_fopen" => shm_filename # EMPTY

\* C11: from some point on every running backend's filename_in_use is the
\* shared filename, and stays so (the shared filename is no longer rewritten).
C11_WritersConverge ==
  <>[] (\A p \in Running : filename_in_use[p] = shm_filename)

\* p's step evaluates calculate_next_rotation_time and stores the result
StoresRotationTime(p) ==
  \/ pc[p] = "ss_init" /\ pc'[p] = "ss_rel" /\ ~shm_found
  \/ pc[p] = "nr_time_set" /\ pc'[p] = "cf_read"

\* C12: a rotation time computed at time now with a positive interval lies
\* after now and at most one interval after it, and is a multiple of the
\* interval in local time; computed when the previous rotation time has
\* passed by less than one interval, it is the previous one plus the interval.
C12_NextDeadline ==
  [][ \A p \in Procs :
        (StoresRotationTime(p) /\ RotationInterval(p) > 0)
          => /\ clock < shm_next_rotation_time'
             /\ shm_next_rotation_time' <= clock + RotationInterval(p)
             /\ (shm_next_rotation_time' + tm_gmtoff) % RotationInterval(p) = 0
             /\ ( /\ pc[p] = "nr_time_set"
                  /\ clock < shm_next_rotation_time + RotationInterval(p) )
                => shm_next_rotation_time' =
                     shm_next_rotation_time + RotationInterval(p) ]_vars

C12_Witness ==
  \E p \in Procs :
    /\ pc[p] = "cf_read" /\ nr_last[p] = "deadline"
    /\ tm_gmtoff < 0
    /\ RotationInterval(p) = 3600
    /\ clock % 3600 # 0
    /\ shm_next_rotation_time = observed[p].deadline + 3600

\* standard CSV reading of a line: the fields between the commas that are
\* outside quotes, a quoted field without its quotes and with every doubled
\* quote single, an unquoted empty field absent (NULL)
RECURSIVE CsvRead(_, _, _, _)
CsvRead(line, field, quoted, fields) ==
  IF line = << >> THEN fields
  ELSE LET c == Head(line)
           rest == Tail(line)
       IN  IF quoted = "in"
             THEN IF c = "\""
                    THEN IF rest # << >> /\ Head(rest) = "\""
                           THEN CsvRead(Tail(rest), Append(field, "\""), "in",
                                        fields)
                           ELSE CsvRead(rest, field, "after", fields)
                    ELSE CsvRead(rest, Append(field, c), "in", fields)
             ELSE IF c = ","
                    THEN CsvRead(rest, << >>, "no",
                           Append(fields,
                             IF quoted = "no" /\ field = << >>
                               THEN NULL ELSE field))
                    ELSE IF c = "\"" /\ quoted = "no" /\ field = << >>
                           THEN CsvRead(rest, << >>, "in", fields)
                           ELSE CsvRead(rest, Append(field, c), quoted, fields)

\* C13: the line format_audit_line built reads back, as CSV, as the message
\* and the detail of the record, an absent detail as an absent field; and
\* each present text is written between two double quotes.
C13_CsvRoundTrip ==
  \A p \in Procs :
    (Handled(p) /\ recorded[p] \in { "ok", "write_failed" })
    => /\ CsvRead(buf[p], << >>, "no", << >>)
            = << edata[p].message, edata[p].detail >>
       /\ Head(buf[p]) = "\""
       /\ Len(buf[p]) >= Len(edata[p].message) + 2
            + (IF edata[p].detail = NULL THEN 1
                                        ELSE Len(edata[p].detail) + 3)

C13_Witness ==
  \E p \in Procs :
    /\ Handled(p) /\ recorded[p] = "ok"
    /\ edata[p].message = PGAUDIT_PREFIX_LINE \o << "\"", "," >>
    /\ edata[p].detail = NULL
    /\ buf[p] = << "\"" >> \o PGAUDIT_PREFIX_LINE
                  \o << "\"", "\"", ",", "\"", ",", "," >>

\* C14: a backend that returns true from needs_rotate_file for the force flag
\* clears a flag that is still set: no other backend has consumed the same
\* setting of the flag before it.
C14_ForceConsumedOnce ==
  [][ \A p \in Procs :
        (pc[p] = "nr_force_set" /\ pc'[p] = "cf_read")
          => shm_force_rotation ]_vars

\* C16: the filename a calculate_filename stores is the one of the period
\* before the rotation time that shared memory holds when the name is stored.
C16_StoresCurrentPeriod ==
  [][ \A p \in Procs :
        (pc[p] = "cf_strftime" /\ pc'[p] = "close")
          => shm_filename' =
               FilenameFor(p, shm_next_rotation_time - RotationInterval(p)) ]_vars

\* C18: a backend that is at a file operation (the fopen of open_file and
\* the warning for its failure, the fclose of close_file, the fseek and
\* fwrite of write_audit) holds the lock in neither mode.
C18_NoLockAcrossFileIO ==
  \A p \in Procs :
    pc[p] \in { "close", "of_fopen", "of_rel", "wa_write" }
      => shm_lock.excl # p /\ p \notin shm_lock.shared

\* C19: the shmem_startup of the first backend to attach sets the force flag
\* and computes the next rotation time; the shmem_startup of a backend that
\* attaches when another one is attached already leaves the shared filename,
\* the force flag and the next rotation time as they are.
C19_InitialiseOnce ==
  [][ \A p \in Procs :
        (pc[p] = "ss_init" /\ pc'[p] = "ss_rel")
          => IF \E q \in Procs \ { p } : pgaudit_log_shm[q]
               THEN UNCHANGED << shm_filename, shm_force_rotation,
                                 shm_next_rotation_time >>
               ELSE /\ shm_force_rotation'
                    /\ shm_next_rotation_time' =
                         pgauditlogtofile_calculate_next_rotation_time(
                           clock, guc_pgaudit_log_rotation_age[p], tm_gmtoff)
                    /\ shm_filename' = shm_filename ]_vars

\* a backend has attached after the first one consumed the force flag and
\* stored a filename, at a time for which shmem_startup would compute another
\* rotation time than the stored one
C19_Witness ==
  \E p \in Procs :
    /\ pc[p] = "ss_rel"
    /\ found[p]
    /\ ~shm_force_rotation
    /\ shm_filename # EMPTY
    /\ shm_next_rotation_time #
         pgauditlogtofile_calculate_next_rotation_time(
           clock, guc_pgaudit_log_rotation_age[p], tm_gmtoff)

\* a rotation is on its way: the force flag is set, or a backend has read it
\* set at line 321 and has not yet returned true at line 325
ForceArmed ==
  \/ shm_force_rotation
  \/ \E q \in Procs : pc[q] \in { "nr_force_acq", "nr_force_set" }

InCalculateFilename(q) ==
  pc[q] \in { "cf_read", "cf_acq", "cf_memset", "cf_snprintf", "cf_strftime" }

\* C15: when an assign hook of an attached backend returns, a rotation is on
\* its way, whether the hook set the flag or found it set; the next audit
\* record a backend takes while the flag is set goes the way of the flag; a
\* rotation on its way ends only by a backend returning true from
\* needs_rotate_file and entering calculate_filename; and a backend in
\* calculate_filename goes on to store the filename.
C15_RequestNeverLost ==
  [][ /\ \A p \in Procs :
           ( \/ pc[p] = "ga_set" /\ pc'[p] = "idle"
             \/ pc[p] # "ga_ret" /\ pc'[p] = "ga_ret" ) => ForceArmed'
      /\ \A q \in Procs :
           ( /\ pc[q] = "idle"
             /\ pc'[q] \in { "nr_force_acq", "nr_name" }
             /\ shm_force_rotation ) => pc'[q] = "nr_force_acq"
      /\ (ForceArmed /\ ~ForceArmed')
           => \E q \in Procs : pc[q] = "nr_force_set" /\ pc'[q] = "cf_read"
      /\ \A q \in Procs :
           (InCalculateFilename(q) /\ pc'[q] # pc[q])
             => \/ InCalculateFilename(q)'
                \/ pc'[q] = "close" /\ shm_filename' # shm_filename ]_vars

\* the hook of a backend found the flag set and returns without setting it
\* while another backend, which read the same flag, is about to clear it
C15_Witness ==
  \E p \in Procs : \E q \in Procs \ { p } :
    /\ pc[p] = "ga_ret"
    /\ pc[q] = "nr_force_set"
    /\ shm_force_rotation
    /\ guc_pgaudit_log_directory[p] # guc_pgaudit_log_directory[q]

\* a step stores a new value in one of the three shared fields
MutatesShared ==
  \/ shm_filename' # shm_filename
  \/ shm_force_rotation' # shm_force_rotation
  \/ shm_next_rotation_time' # shm_next_rotation_time

\* C17 as stated: a step that changes the shared filename, force flag or
\* next rotation time is a step of a backend that holds the struct's lock
\* in exclusive mode.
C17_AllUnderRotationLock ==
  [][ MutatesShared
        => \E p \in Procs : pc'[p] # pc[p] /\ shm_lock.excl = p ]_vars

\* C17: a step that changes the shared filename, force flag or next rotation
\* time is a step of a backend that holds the struct's lock in exclusive
\* mode, or the step of shmem_startup that creates the struct, taken under
\* AddinShmemInitLock.
C17_MutationsUnderLock ==
  [][ MutatesShared
        => \E p \in Procs :
             /\ pc'[p] # pc[p]
             /\ \/ shm_lock.excl = p
                \/ /\ pc[p] = "ss_init"
                   /\ ~shm_found
                   /\ AddinShmemInitLock = p
                   /\ shm_lock = LockFree ]_vars

\* an assign hook holds the lock and is about to set the flag again, after
\* the struct was created, the first flag cleared and a filename stored
C17_Witness ==
  \E p \in Procs :
    /\ pc[p] = "ga_set"
    /\ shm_lock.excl = p
    /\ shm_found
    /\ ~shm_force_rotation
    /\ shm_filename # EMPTY

\* C20: a backend that is about to compute the next rotation time, in
\* shmem_startup or after the deadline test of needs_rotate_file, has a
\* rotation interval other than zero.
C20_IntervalNeverZero ==
  \A p \in Procs :
    (pc[p] = "nr_time_set" \/ (pc[p] = "ss_init" /\ ~shm_found))
      => guc_pgaudit_log_rotation_age[p] * SECS_PER_MINUTE # 0

\* C21: a store of the next rotation time by the deadline test of
\* needs_rotate_file writes a value greater than the one it replaces and
\* greater than the time of the store.
C21_DeadlineNeverDecreases ==
  [][ \A p \in Procs :
        (pc[p] = "nr_time_set" /\ pc'[p] = "cf_read")
          => /\ shm_next_rotation_time' > shm_next_rotation_time
             /\ shm_next_rotation_time' > clock ]_vars

====
